---- MODULE Spec2Model ----
(***************************************************************************)
(* Lead extraction, scoring and persistence of LeadPulse ("Lia").         *)
(*                                                                         *)
(*   database.py         DatabaseManager: the SQLite lead store           *)
(*   session_manager.py  SessionManager: load/save of a session's lead    *)
(*   multilanguage.py    per-locale field extractor, scorer, priority     *)
(*   app.py              the chat page: regex extractor, LLM inference     *)
(*                       merge, in-session score and tier                  *)
(*                                                                         *)
(* Python dictionaries are functions whose DOMAIN is the set of keys that  *)
(* are present; d.get(k, default) is Get(d, k, default).  A string is the  *)
(* sequence of its characters; Python None and SQL NULL are the value      *)
(* None, which is no string.                                               *)
(***************************************************************************)
EXTENDS Integers, Sequences, FiniteSets, TLC

VARIABLES
    leads,        \* table leads, in rowid order
    analytics,    \* table analytics, in rowid order
    nextId,       \* number of uuid4 values drawn so far
    nOps,         \* number of store operations performed
    last,         \* the last operation: its arguments, result and pre-state
    firstRet,     \* per session, the lead_id the first save_lead returned
    procs,        \* concurrent save_lead calls: position and locals
    dbLock,       \* holder of the SQLite write lock, 0 when free
    session_lead, \* the lead dictionary handed to extract_lead_info_multilingual
    app_lead,     \* app.py: st.session_state.lead_data
    messages,     \* app.py: st.session_state.messages
    message_counter, \* app.py: st.session_state.message_counter
    lead_saved,   \* app.py: st.session_state.lead_saved
    csv,          \* app.py: the rows of leads.csv below the header
    turn_pc,      \* app.py: position of chat_page within the turn
    sessions,     \* table sessions, in rowid order
    state_session_id, \* per conversation, st.session_state.session_id (0: not set)
    conversations, \* table conversations, in rowid order
    clock         \* the value of CURRENT_TIMESTAMP, in seconds

storeVars == <<leads, analytics, nextId, firstRet>>

concVars == <<procs, dbLock>>

chatVars == <<app_lead, messages, message_counter, lead_saved, csv, turn_pc>>

sessVars == <<sessions, state_session_id, conversations, clock>>

vars == <<leads, analytics, nextId, nOps, last, firstRet, procs, dbLock,
          session_lead, app_lead, messages, message_counter, lead_saved, csv, turn_pc,
          sessions, state_session_id, conversations, clock>>

----------------------------------------------------------------------------
(* Bounds *)

MaxOps == 3

MaxTurns == 3

\* the largest score, calculate_lead_score caps at it
MaxScore == 100

\* the largest number of buying signals of a scored lead
MaxSignals == 5

----------------------------------------------------------------------------
(* Values *)

None == <<"None">>

\* no session: the session_id of an operation that has none
NoSession == "-"

\* the field values of the partial leads
A == <<"a">>

B == <<"b">>

NoId == 0

Sessions == {"s1", "s2"}

ContactFields == {"name", "email", "phone", "company", "interest", "budget"}

\* Python truthiness of a field value: None and the empty string are falsy
Truthy(v) == v # None /\ v # <<>>

Get(d, k, default) == IF k \in DOMAIN d THEN d[k] ELSE default

\* SQL COALESCE(x, y): x unless it is NULL
COALESCE(x, y) == IF x # None THEN x ELSE y

EmptyDict == [k \in {} |-> None]

----------------------------------------------------------------------------
(* Strings: str.lower, str.title, str.strip, "in", re.sub *)

LowerCase == <<"a", "b", "c", "d", "e", "f", "g", "h", "i", "j", "k", "l", "m",
               "n", "o", "p", "q", "r", "s", "t", "u", "v", "w", "x", "y", "z">>

UpperCase == <<"A", "B", "C", "D", "E", "F", "G", "H", "I", "J", "K", "L", "M",
               "N", "O", "P", "Q", "R", "S", "T", "U", "V", "W", "X", "Y", "Z">>

Digits == {"0", "1", "2", "3", "4", "5", "6", "7", "8", "9"}

IsUpper(c) == \E i \in 1..26 : UpperCase[i] = c

IsLower(c) == \E i \in 1..26 : LowerCase[i] = c

IsAlpha(c) == IsUpper(c) \/ IsLower(c)

ToLower(c) == IF IsUpper(c) THEN LowerCase[CHOOSE i \in 1..26 : UpperCase[i] = c] ELSE c

ToUpper(c) == IF IsLower(c) THEN UpperCase[CHOOSE i \in 1..26 : LowerCase[i] = c] ELSE c

\* s.lower()
str_lower(s) == [i \in 1..Len(s) |-> ToLower(s[i])]

\* s.title(): a letter after a non-letter is upper-cased, any other lower-cased
str_title(s) ==
    [i \in 1..Len(s) |->
        IF i = 1 \/ ~IsAlpha(s[i - 1]) THEN ToUpper(s[i]) ELSE ToLower(s[i])]

\* s.strip()
str_strip(s) ==
    LET keep == {i \in 1..Len(s) : s[i] # " "}
    IN  IF keep = {} THEN <<>>
        ELSE LET lo == CHOOSE i \in keep : \A j \in keep : i <= j
                 hi == CHOOSE i \in keep : \A j \in keep : j <= i
             IN  SubSeq(s, lo, hi)

\* w in s
Contains(s, w) ==
    \E i \in 0..(Len(s) - Len(w)) : SubSeq(s, i + 1, i + Len(w)) = w

IsDigit(c) == c \in Digits

IsPhoneChar(c) == c \notin {"(", ")", " ", "-"}

\* re.sub(r'\D', '', s)
OnlyDigits(s) == SelectSeq(s, IsDigit)

\* re.sub(r'[()\s-]', '', s)
StripPhoneSeparators(s) == SelectSeq(s, IsPhoneChar)

\* d[k] = v
Put(d, k, v) == [x \in (DOMAIN d) \cup {k} |-> IF x = k THEN v ELSE d[x]]

\* the least element of a non-empty set of pattern indexes
First(S) == CHOOSE i \in S : \A j \in S : i <= j

----------------------------------------------------------------------------
(* Scorer and priority (multilanguage.py) *)

\* DEFAULT_CONFIG["lead_qualification"]["scoring"]
DEFAULT_SCORING ==
    [email_provided |-> 30, phone_provided |-> 20, company_provided |-> 15,
     budget_provided |-> 15, timeline_provided |-> 10, decision_maker_yes |-> 10]

Min(a, b) == IF a < b THEN a ELSE b

calculate_lead_score(lead_data, scoring_config) ==
    LET has(f) == Truthy(Get(lead_data, f, None))
        s == (IF has("email") THEN Get(scoring_config, "email_provided", 30) ELSE 0)
           + (IF has("phone") THEN Get(scoring_config, "phone_provided", 20) ELSE 0)
           + (IF has("company") THEN Get(scoring_config, "company_provided", 15) ELSE 0)
           + (IF has("budget") THEN Get(scoring_config, "budget_provided", 15) ELSE 0)
           + (IF has("interest") THEN Get(scoring_config, "timeline_provided", 10) ELSE 0)
           + (IF has("name") THEN 10 ELSE 0)
    IN  Min(s, 100)

\* mutant: a score of exactly 70 is not yet high
get_lead_priority_Above70(score) ==
    IF score > 70 THEN "high"
    ELSE IF score >= 40 THEN "medium"
    ELSE "low"

get_lead_priority(score) ==
    IF score >= 70 THEN "high"
    ELSE IF score >= 40 THEN "medium"
    ELSE "low"

----------------------------------------------------------------------------
(* Field extractor (multilanguage.py).  An utterance is given by the result *)
(* of re.search for each pattern of the rule table: None when the pattern   *)
(* does not match, else the matched text (group() for email and phone,      *)
(* group(1) for the trigger-phrase patterns).                               *)

\* LEAD_EXTRACTION_PATTERNS[field].get(language, ...["en"]): number of patterns
NumPatterns(field, language) ==
    IF field = "name" /\ language \notin {"zh", "es"} THEN 3 ELSE 2

NameBlacklist == {<<"e", "m", "a", "i", "l">>, <<"p", "h", "o", "n", "e">>,
                  <<"n", "u", "m", "b", "e", "r">>,
                  <<"a", "d", "d", "r", "e", "s", "s">>}

CompanyBlacklist == {<<"e", "m", "a", "i", "l">>, <<"p", "h", "o", "n", "e">>,
                     <<"n", "u", "m", "b", "e", "r">>}

\* name_match.group(1).strip().title() and the false-positive filter
NameOf(m) == str_title(str_strip(m))

\* mutant: the false-positive filter of the name is left out
AcceptName_Any(name) == TRUE

AcceptName(name) ==
    Len(name) > 1 /\ ~\E w \in NameBlacklist : Contains(str_lower(name), w)

CompanyOf(m) == str_title(str_strip(m))

AcceptCompany(company) ==
    Len(company) > 2 /\ ~\E w \in CompanyBlacklist : Contains(str_lower(company), w)

InterestOf(m) == str_strip(m)

AcceptInterest(interest) == 5 <= Len(interest) /\ Len(interest) <= 100

\* the patterns of a field whose match is taken: the loop breaks at the first
NameHits(user_input, language) ==
    {i \in 1..NumPatterns("name", language) :
        user_input.name[i] # None /\ AcceptName(NameOf(user_input.name[i]))}

CompanyHits(user_input, language) ==
    {i \in 1..NumPatterns("company", language) :
        user_input.company[i] # None /\ AcceptCompany(CompanyOf(user_input.company[i]))}

InterestHits(user_input, language) ==
    {i \in 1..NumPatterns("interest", language) :
        user_input.interest[i] # None /\ AcceptInterest(InterestOf(user_input.interest[i]))}

BudgetHits(user_input, language) ==
    {i \in 1..NumPatterns("budget", language) : user_input.budget[i] # None}

\* mutant: the email is captured although the lead has one
ExtractEmail_Overwrite(user_input, lead_data) ==
    IF user_input.email # None
    THEN Put(lead_data, "email", str_lower(user_input.email))
    ELSE lead_data

ExtractEmail(user_input, lead_data) ==
    IF ~Truthy(Get(lead_data, "email", None)) /\ user_input.email # None
    THEN Put(lead_data, "email", str_lower(user_input.email))
    ELSE lead_data

ExtractName(user_input, language, lead_data) ==
    IF ~Truthy(Get(lead_data, "name", None)) /\ NameHits(user_input, language) # {}
    THEN Put(lead_data, "name", NameOf(user_input.name[First(NameHits(user_input, language))]))
    ELSE lead_data

\* the stored phone is the match as found; the stripped copy is only measured
ExtractPhone(user_input, lead_data) ==
    IF /\ ~Truthy(Get(lead_data, "phone", None))
       /\ user_input.phone # None
       /\ Len(StripPhoneSeparators(user_input.phone)) >= 10
    THEN Put(lead_data, "phone", user_input.phone)
    ELSE lead_data

ExtractCompany(user_input, language, lead_data) ==
    IF ~Truthy(Get(lead_data, "company", None)) /\ CompanyHits(user_input, language) # {}
    THEN Put(lead_data, "company",
             CompanyOf(user_input.company[First(CompanyHits(user_input, language))]))
    ELSE lead_data

ExtractInterest(user_input, language, lead_data) ==
    IF ~Truthy(Get(lead_data, "interest", None)) /\ InterestHits(user_input, language) # {}
    THEN Put(lead_data, "interest",
             InterestOf(user_input.interest[First(InterestHits(user_input, language))]))
    ELSE lead_data

ExtractBudget(user_input, language, lead_data) ==
    IF ~Truthy(Get(lead_data, "budget", None)) /\ BudgetHits(user_input, language) # {}
    THEN Put(lead_data, "budget", user_input.budget[First(BudgetHits(user_input, language))])
    ELSE lead_data

extract_lead_info_multilingual(user_input, language, lead_data) ==
    IF user_input.empty THEN lead_data
    ELSE ExtractBudget(user_input, language,
         ExtractInterest(user_input, language,
         ExtractCompany(user_input, language,
         ExtractPhone(user_input,
         ExtractName(user_input, language,
         ExtractEmail(user_input, lead_data))))))

----------------------------------------------------------------------------
(* The chat page (app.py).  The fields of st.session_state.lead_data hold   *)
(* Python values of any type, since the inference merge assigns what the    *)
(* JSON reply holds: a value is a record of its type t and its content v.   *)

PyNone == [t |-> "None", v |-> <<>>]

PyStr(s) == [t |-> "str", v |-> s]

PyList(l) == [t |-> "list", v |-> l]

PyInt(n) == [t |-> "int", v |-> <<n>>]

\* bool(x)
PyTruthy(x) ==
    CASE x.t = "None" -> FALSE
      [] x.t = "int"  -> x.v # <<0>>
      [] OTHER        -> x.v # <<>>

AppFields == {"name", "email", "phone", "company", "interest"}

\* chat_page: the lead of a new session
NewAppLead ==
    [name |-> PyNone, email |-> PyNone, phone |-> PyNone, interest |-> PyNone,
     company |-> PyNone, industry |-> PyNone, pain_points |-> PyNone,
     buying_signals |-> <<>>, lead_score |-> 0, lead_status |-> "New"]

\* the tier assignment of calculate_lead_score
AppTier(score) ==
    IF score >= 70 THEN "Hot"
    ELSE IF score >= 40 THEN "Warm"
    ELSE "Cold"

\* the weighted sum of calculate_lead_score
AppScore(lead) ==
      (IF PyTruthy(lead.name) THEN 10 ELSE 0)
    + (IF PyTruthy(lead.email) THEN 20 ELSE 0)
    + (IF PyTruthy(lead.phone) THEN 15 ELSE 0)
    + (IF PyTruthy(lead.company) THEN 5 ELSE 0)
    + (IF PyTruthy(lead.industry) THEN 10 ELSE 0)
    + (IF PyTruthy(lead.interest) THEN 10 ELSE 0)
    + (IF PyTruthy(lead.pain_points) THEN 10 ELSE 0)
    + Min(Len(lead.buying_signals) * 5, 20)

\* app.calculate_lead_score()
app_calculate_lead_score(lead) ==
    [lead EXCEPT !.lead_score = AppScore(lead), !.lead_status = AppTier(AppScore(lead))]

\* the patterns of a field that match; the loop breaks at the first
AppHits(matches) == {i \in 1..Len(matches) : matches[i] # None}

\* mutant: a captured field does not trigger the recalculation
RegexFinish_NoRecalc(lead, updated) == lead

\* if updated: ... calculate_lead_score()
RegexFinish(lead, updated) ==
    IF updated THEN app_calculate_lead_score(lead) ELSE lead

\* mutant: the name is captured although the lead has one
RegexName_Overwrite(user_input, lead) ==
    IF AppHits(user_input.name) # {}
    THEN [lead EXCEPT !.name =
              PyStr(str_title(str_strip(user_input.name[First(AppHits(user_input.name))])))]
    ELSE lead

RegexEmail(user_input, lead) ==
    IF ~PyTruthy(lead.email) /\ user_input.email # None
    THEN [lead EXCEPT !.email = PyStr(user_input.email)]
    ELSE lead

RegexPhone(user_input, lead) ==
    IF ~PyTruthy(lead.phone) /\ AppHits(user_input.phone) # {}
    THEN [lead EXCEPT !.phone =
              PyStr(OnlyDigits(user_input.phone[First(AppHits(user_input.phone))]))]
    ELSE lead

RegexName(user_input, lead) ==
    IF ~PyTruthy(lead.name) /\ AppHits(user_input.name) # {}
    THEN [lead EXCEPT !.name =
              PyStr(str_title(str_strip(user_input.name[First(AppHits(user_input.name))])))]
    ELSE lead

RegexCompany(user_input, lead) ==
    IF ~PyTruthy(lead.company) /\ AppHits(user_input.company) # {}
    THEN [lead EXCEPT !.company =
              PyStr(str_title(str_strip(user_input.company[First(AppHits(user_input.company))])))]
    ELSE lead

RegexInterest(user_input, lead) ==
    IF ~PyTruthy(lead.interest) /\ AppHits(user_input.interest) # {}
    THEN [lead EXCEPT !.interest =
              PyStr(str_lower(str_strip(user_input.interest[First(AppHits(user_input.interest))])))]
    ELSE lead

\* updated: some branch of extract_lead_info_regex assigned a field
RegexUpdated(user_input, lead) ==
    \/ ~PyTruthy(lead.email) /\ user_input.email # None
    \/ ~PyTruthy(lead.phone) /\ AppHits(user_input.phone) # {}
    \/ ~PyTruthy(lead.name) /\ AppHits(user_input.name) # {}
    \/ ~PyTruthy(lead.company) /\ AppHits(user_input.company) # {}
    \/ ~PyTruthy(lead.interest) /\ AppHits(user_input.interest) # {}

extract_lead_info_regex(user_input, lead) ==
    RegexFinish(
        RegexInterest(user_input,
        RegexCompany(user_input,
        RegexName(user_input,
        RegexPhone(user_input,
        RegexEmail(user_input, lead))))),
        RegexUpdated(user_input, lead))

\* "; ".join(l) for a list of strings
RECURSIVE JoinFrom(_, _)
JoinFrom(l, i) ==
    IF i > Len(l) THEN <<>>
    ELSE IF i = Len(l) THEN l[i].v
    ELSE l[i].v \o <<";", " ">> \o JoinFrom(l, i + 1)

\* analysis.get(key)
AGet(analysis, key) == IF key \in DOMAIN analysis THEN analysis[key] ELSE PyNone

\* mutant: no signal is found in the list
InList_Never(x, l) == FALSE

\* x in l
InList(x, l) == \E i \in 1..Len(l) : l[i] = x

\* for signal in buying_signals: append it unless it is in the list
RECURSIVE AppendSignals(_, _, _)
AppendSignals(signals, new, i) ==
    IF i > Len(new) THEN signals
    ELSE AppendSignals(IF InList(new[i], signals) THEN signals ELSE Append(signals, new[i]),
                       new, i + 1)

\* mutant: the implied interest is merged although the lead has one
MergeInterest_Overwrite(analysis, st) ==
    LET interests == AGet(analysis, "implied_interests")
    IN  IF PyTruthy(interests)
        THEN IF interests.t = "list"
             THEN [lead |-> [st.lead EXCEPT !.interest = interests.v[1]], updated |-> TRUE]
             ELSE IF interests.t = "str"
             THEN [lead |-> [st.lead EXCEPT !.interest = interests], updated |-> TRUE]
             ELSE st
        ELSE st

\* the merge steps carry the lead and the flag updated
MergeInterest(analysis, st) ==
    LET interests == AGet(analysis, "implied_interests")
    IN  IF ~PyTruthy(st.lead.interest) /\ PyTruthy(interests)
        THEN IF interests.t = "list"
             THEN [lead |-> [st.lead EXCEPT !.interest = interests.v[1]], updated |-> TRUE]
             ELSE IF interests.t = "str"
             THEN [lead |-> [st.lead EXCEPT !.interest = interests], updated |-> TRUE]
             ELSE st
        ELSE st

MergeIndustry(analysis, st) ==
    IF ~PyTruthy(st.lead.industry) /\ PyTruthy(AGet(analysis, "industry"))
    THEN [lead |-> [st.lead EXCEPT !.industry = AGet(analysis, "industry")], updated |-> TRUE]
    ELSE st

\* "; ".join(pain_points) raises TypeError when an item is not a string
PainPointsRaises(analysis, st) ==
    LET pain_points == AGet(analysis, "pain_points")
    IN  /\ ~PyTruthy(st.lead.pain_points)
        /\ PyTruthy(pain_points)
        /\ pain_points.t = "list"
        /\ \E i \in 1..Len(pain_points.v) : pain_points.v[i].t # "str"

MergePainPoints(analysis, st) ==
    LET pain_points == AGet(analysis, "pain_points")
    IN  IF ~PyTruthy(st.lead.pain_points) /\ PyTruthy(pain_points)
        THEN IF pain_points.t = "list"
             THEN [lead |-> [st.lead EXCEPT !.pain_points = PyStr(JoinFrom(pain_points.v, 1))],
                   updated |-> TRUE]
             ELSE IF pain_points.t = "str"
             THEN [lead |-> [st.lead EXCEPT !.pain_points = pain_points], updated |-> TRUE]
             ELSE st
        ELSE st

MergeBuyingSignals(analysis, st) ==
    LET buying_signals == AGet(analysis, "buying_signals")
        merged == IF buying_signals.t = "list"
                  THEN AppendSignals(st.lead.buying_signals, buying_signals.v, 1)
                  ELSE IF buying_signals.t = "str"
                  THEN AppendSignals(st.lead.buying_signals, <<buying_signals>>, 1)
                  ELSE st.lead.buying_signals
    IN  IF PyTruthy(buying_signals)
        THEN [lead |-> [st.lead EXCEPT !.buying_signals = merged],
              updated |-> st.updated \/ merged # st.lead.buying_signals]
        ELSE st

\* the completion call is reached: the history holds at least 3 messages
InferenceCalled(n_messages) == ~(n_messages < 3)

\* mutant: a raising completion call leaves a new, empty lead
analyze_conversation_with_openai_ErrorResets(lead, n_messages, response) ==
    IF n_messages < 3 THEN lead
    ELSE IF response.kind = "error" THEN NewAppLead
    ELSE IF response.kind # "object" THEN lead
    ELSE LET analysis == response.analysis
             s2 == MergeIndustry(analysis,
                   MergeInterest(analysis, [lead |-> lead, updated |-> FALSE]))
             s4 == MergeBuyingSignals(analysis, MergePainPoints(analysis, s2))
         IN  IF PainPointsRaises(analysis, s2) THEN s2.lead
             ELSE IF s4.updated THEN app_calculate_lead_score(s4.lead)
             ELSE s4.lead

\* analyze_conversation_with_openai: the lead it leaves.  response is the
\* outcome of the completion call: kind "error" when the call raises,
\* "not_json" when json.loads raises, "object" with the parsed analysis.
analyze_conversation_with_openai(lead, n_messages, response) ==
    IF n_messages < 3 THEN lead
    ELSE IF response.kind # "object" THEN lead
    ELSE LET analysis == response.analysis
             s2 == MergeIndustry(analysis,
                   MergeInterest(analysis, [lead |-> lead, updated |-> FALSE]))
             s4 == MergeBuyingSignals(analysis, MergePainPoints(analysis, s2))
         IN  IF PainPointsRaises(analysis, s2) THEN s2.lead
             ELSE IF s4.updated THEN app_calculate_lead_score(s4.lead)
             ELSE s4.lead

\* the reply of get_openai_response when the completion call raises
FallbackReply == "fallback"

\* mutant: the exception text of the failed call becomes the reply
get_openai_response_ShowError(call_ok) == IF call_ok THEN "reply" ELSE "error"

\* get_openai_response: the content of the completion, or the fixed reply of
\* the except clause when anything in the try block raises
get_openai_response(call_ok) == IF call_ok THEN "reply" ELSE FallbackReply

\* the browser conversations, each with its own st.session_state
Conversations == {"c1", "c2"}

\* an empty sessions table and no conversation bound to a session
InitSessions ==
    /\ sessions = <<>>
    /\ state_session_id = [c \in Conversations |-> NoId]
    /\ conversations = <<>>
    /\ clock = 0

\* chat_page after the session state is initialised
InitChat ==
    /\ app_lead = NewAppLead
    /\ messages = <<[role |-> "assistant", content |-> "welcome"]>>
    /\ message_counter = 0
    /\ lead_saved = FALSE
    /\ csv = <<>>
    /\ turn_pc = "idle"

----------------------------------------------------------------------------
(* The lead store (database.py) *)

\* mutant: the existence check never finds the session's lead
SelectLeadId_Miss(tbl, session_id) == NoId

\* SELECT id FROM leads WHERE session_id = ? ; fetchone()
SelectLeadId(tbl, session_id) ==
    LET hits == {i \in 1..Len(tbl) : tbl[i].session_id = session_id}
    IN  IF hits = {} THEN NoId
        ELSE tbl[CHOOSE i \in hits : \A j \in hits : i <= j].id

\* mutant: the UPDATE assigns the parameters without COALESCE
UpdateLeadRow_NoCoalesce(row, lead_data) ==
    [row EXCEPT
        !.name     = Get(lead_data, "name", None),
        !.email    = Get(lead_data, "email", None),
        !.phone    = Get(lead_data, "phone", None),
        !.company  = Get(lead_data, "company", None),
        !.interest = Get(lead_data, "interest", None),
        !.budget   = Get(lead_data, "budget", None),
        !.language = Get(lead_data, "language", "en"),
        !.score    = Get(lead_data, "score", 0),
        !.priority = Get(lead_data, "priority", "low")]

\* mutant: the UPDATE also writes the status of the partial lead
UpdateLeadRow_WithStatus(row, lead_data) ==
    [row EXCEPT
        !.name     = COALESCE(Get(lead_data, "name", None), @),
        !.email    = COALESCE(Get(lead_data, "email", None), @),
        !.phone    = COALESCE(Get(lead_data, "phone", None), @),
        !.company  = COALESCE(Get(lead_data, "company", None), @),
        !.interest = COALESCE(Get(lead_data, "interest", None), @),
        !.budget   = COALESCE(Get(lead_data, "budget", None), @),
        !.language = Get(lead_data, "language", "en"),
        !.score    = Get(lead_data, "score", 0),
        !.priority = Get(lead_data, "priority", "low"),
        !.status   = Get(lead_data, "status", "new")]

\* UPDATE leads SET name = COALESCE(?, name), ... WHERE id = ?
UpdateLeadRow(row, lead_data) ==
    [row EXCEPT
        !.name     = COALESCE(Get(lead_data, "name", None), @),
        !.email    = COALESCE(Get(lead_data, "email", None), @),
        !.phone    = COALESCE(Get(lead_data, "phone", None), @),
        !.company  = COALESCE(Get(lead_data, "company", None), @),
        !.interest = COALESCE(Get(lead_data, "interest", None), @),
        !.budget   = COALESCE(Get(lead_data, "budget", None), @),
        !.language = Get(lead_data, "language", "en"),
        !.score    = Get(lead_data, "score", 0),
        !.priority = Get(lead_data, "priority", "low")]

UpdateLead(tbl, lead_data, lead_id) ==
    [i \in 1..Len(tbl) |->
        IF tbl[i].id = lead_id THEN UpdateLeadRow(tbl[i], lead_data) ELSE tbl[i]]

\* INSERT INTO leads (id, session_id, name, ..., status) VALUES (...)
InsertLeadRow(lead_data, session_id, lead_id) ==
    [id         |-> lead_id,
     session_id |-> session_id,
     name       |-> Get(lead_data, "name", None),
     email      |-> Get(lead_data, "email", None),
     phone      |-> Get(lead_data, "phone", None),
     company    |-> Get(lead_data, "company", None),
     interest   |-> Get(lead_data, "interest", None),
     budget     |-> Get(lead_data, "budget", None),
     language   |-> Get(lead_data, "language", "en"),
     score      |-> Get(lead_data, "score", 0),
     priority   |-> Get(lead_data, "priority", "low"),
     status     |-> Get(lead_data, "status", "new"),
     notes      |-> None]

\* DatabaseManager.save_lead, run without interruption
save_lead(tbl, lead_data, session_id, fresh_id) ==
    LET existing_lead == SelectLeadId(tbl, session_id)
    IN  IF existing_lead # NoId
        THEN [tbl |-> UpdateLead(tbl, lead_data, existing_lead), lead_id |-> existing_lead]
        ELSE [tbl |-> Append(tbl, InsertLeadRow(lead_data, session_id, fresh_id)),
              lead_id |-> fresh_id]

\* DatabaseManager.update_lead_status
update_lead_status(tbl, lead_id, status, notes) ==
    [i \in 1..Len(tbl) |->
        IF tbl[i].id = lead_id
        THEN [tbl[i] EXCEPT !.status = status, !.notes = COALESCE(notes, @)]
        ELSE tbl[i]]

\* DatabaseManager.get_lead_by_session
get_lead_by_session(tbl, session_id) ==
    LET hits == {i \in 1..Len(tbl) : tbl[i].session_id = session_id}
    IN  IF hits = {} THEN None
        ELSE tbl[CHOOSE i \in hits : \A j \in hits : i <= j]

\* DatabaseManager.log_analytics_event
log_analytics_event(tbl, event_type, session_id, lead_id) ==
    Append(tbl, [event_type |-> event_type, session_id |-> session_id, lead_id |-> lead_id])

----------------------------------------------------------------------------
(* Inputs *)

\* the lead with the caller's score and priority (multilanguage.py scorer)
WithScore(d) ==
    d @@ [score    |-> calculate_lead_score(d, DEFAULT_SCORING),
          priority |-> get_lead_priority(calculate_lead_score(d, DEFAULT_SCORING))]

\* mutant: the stored lead is not read
load_lead_data_Default(tbl, session_id) ==
    [name     |-> None, email    |-> None, phone    |-> None,
     company  |-> None, interest |-> None, budget   |-> None,
     language |-> "en", score    |-> 0,    priority |-> "low",
     status   |-> "new"]

\* SessionManager.load_lead_data: the session's lead as a dictionary
load_lead_data(tbl, session_id) ==
    LET lead_data == get_lead_by_session(tbl, session_id)
    IN  IF SelectLeadId(tbl, session_id) # NoId
        THEN [name     |-> lead_data.name,     email    |-> lead_data.email,
              phone    |-> lead_data.phone,    company  |-> lead_data.company,
              interest |-> lead_data.interest, budget   |-> lead_data.budget,
              language |-> lead_data.language, score    |-> lead_data.score,
              priority |-> lead_data.priority, status   |-> lead_data.status]
        ELSE [name     |-> None, email    |-> None, phone    |-> None,
              company  |-> None, interest |-> None, budget   |-> None,
              language |-> "en", score    |-> 0,    priority |-> "low",
              status   |-> "new"]

\* partial leads handed to save_lead
LeadInputs ==
    { EmptyDict,
      WithScore([name |-> A, email |-> A]),
      [email |-> B, phone |-> A],
      WithScore([company |-> A, budget |-> A, interest |-> A])
          @@ [status |-> "contacted", language |-> "es"],
      WithScore([name |-> B, email |-> B, phone |-> B, company |-> B,
                 interest |-> B, budget |-> B]) @@ [status |-> "qualified"],
      [email |-> A, score |-> 30, priority |-> "low"] @@ load_lead_data(<<>>, "s1") }

\* the status values of the dashboard's selectbox
StatusOptions == {"new", "contacted", "qualified", "converted", "lost"}

StatusInputs == {"contacted", "converted"}

NotesInputs == {None, <<"n">>}

----------------------------------------------------------------------------
(* Sequential operation of the store *)

NoOp == [op |-> "init", sid |-> NoSession, ld |-> EmptyDict, id |-> NoId, ret |-> NoId,
         pre |-> <<>>]

Init ==
    /\ leads = <<>>
    /\ analytics = <<>>
    /\ nextId = 0
    /\ nOps = 0
    /\ last = NoOp
    /\ firstRet = [s \in Sessions |-> NoId]
    /\ procs = <<>>
    /\ dbLock = 0
    /\ session_lead = EmptyDict
    /\ InitChat
    /\ InitSessions

\* SessionManager.save_lead_data: save_lead, then the analytics event
SaveLeadData(session_id, lead_data) ==
    /\ nOps < MaxOps
    /\ LET r == save_lead(leads, lead_data, session_id, nextId + 1)
       IN  /\ leads' = r.tbl
           /\ nextId' = IF r.lead_id = nextId + 1 THEN nextId + 1 ELSE nextId
           /\ analytics' = log_analytics_event(analytics, "lead_updated", session_id, r.lead_id)
           /\ last' = [op |-> "save_lead", sid |-> session_id, ld |-> lead_data,
                       id |-> NoId, ret |-> r.lead_id, pre |-> leads]
           /\ firstRet' = IF firstRet[session_id] = NoId
                          THEN [firstRet EXCEPT ![session_id] = r.lead_id]
                          ELSE firstRet
    /\ nOps' = nOps + 1
    /\ UNCHANGED <<concVars, session_lead, chatVars, sessVars>>

\* the dashboard's "Update" and "Save Notes" buttons: db.update_lead_status
UpdateLeadStatus(lead_id, status, notes) ==
    /\ nOps < MaxOps
    /\ leads' = update_lead_status(leads, lead_id, status, notes)
    /\ last' = [op |-> "update_lead_status", sid |-> NoSession, ld |-> EmptyDict,
                id |-> lead_id, ret |-> NoId, pre |-> leads]
    /\ nOps' = nOps + 1
    /\ UNCHANGED <<analytics, nextId, firstRet, concVars, session_lead, chatVars, sessVars>>

LeadIds(tbl) == {tbl[i].id : i \in 1..Len(tbl)}

Next ==
    \/ \E s \in Sessions, ld \in LeadInputs : SaveLeadData(s, ld)
    \/ \E id \in LeadIds(leads), st \in StatusInputs, n \in NotesInputs :
           UpdateLeadStatus(id, st, n)

Spec == Init /\ [][Next]_vars

----------------------------------------------------------------------------
(* Properties of the store under sequential operation *)

\* the row of a session in a table (the session has one)
RowOf(tbl, session_id) == get_lead_by_session(tbl, session_id)

HasLead(tbl, session_id) == SelectLeadId(tbl, session_id) # NoId

\* the last operation was a save_lead for a session that already had a lead
SavedExisting == last.op = "save_lead" /\ HasLead(last.pre, last.sid)

\* C2: after any sequence of save_lead calls the leads table holds at most
\* one row per session_id, and a save_lead for a session that already has a
\* lead returns the lead_id the first save_lead of that session returned.
C2_OneLeadPerSession ==
    /\ \A i, j \in 1..Len(leads) :
           leads[i].session_id = leads[j].session_id => i = j
    /\ last.op = "save_lead" => last.ret = firstRet[last.sid]

C2_Witness ==
    /\ SavedExisting
    /\ Len(leads) = 2
    /\ last.ret = RowOf(last.pre, last.sid).id

\* C5: a save_lead for a session whose stored lead has a non-null field keeps
\* the stored value when the partial lead carries a different non-null value.
C5_FirstWriteWins ==
    SavedExisting =>
        \A f \in ContactFields :
            (RowOf(last.pre, last.sid)[f] # None /\ Get(last.ld, f, None) # None)
                => RowOf(leads, last.sid)[f] = RowOf(last.pre, last.sid)[f]

\* C6: save_lead with the empty partial, for a session that has a lead,
\* leaves name, email, phone, company, interest and budget of that lead as
\* they were and adds no row.
C6_EmptyPartialIdempotent ==
    (SavedExisting /\ last.ld = EmptyDict) =>
        /\ Len(leads) = Len(last.pre)
        /\ \A f \in ContactFields :
               RowOf(leads, last.sid)[f] = RowOf(last.pre, last.sid)[f]

C6_Witness ==
    /\ SavedExisting
    /\ last.ld = EmptyDict
    /\ RowOf(last.pre, last.sid).email # None
    /\ RowOf(leads, last.sid).email = RowOf(last.pre, last.sid).email

\* C7: after every save_lead the score column of the session's lead is the
\* Scorer's value for the fields stored in that row.
C7_ScoreNeverStale ==
    last.op = "save_lead" =>
        RowOf(leads, last.sid).score
            = calculate_lead_score(RowOf(leads, last.sid), DEFAULT_SCORING)

----------------------------------------------------------------------------
(* Concurrent save_lead calls: each call runs on its own connection, so its  *)
(* SELECT, its INSERT or UPDATE and its commit are separate steps.  SQLite   *)
(* lets any connection read the committed table, gives the write lock to    *)
(* one connection from its first INSERT/UPDATE until its commit, and makes  *)
(* the statement of another writer wait, or fail once the busy timeout of   *)
(* sqlite3.connect has passed.                                              *)

Procs == {1, 2}

ConcInputs ==
    { WithScore([email |-> A]),
      WithScore([phone |-> A]),
      WithScore([name |-> A, email |-> B]) }

IdleProc == [pc |-> "idle", sid |-> NoSession, ld |-> EmptyDict, existing |-> NoId,
             lead_id |-> NoId]

\* a store in which session s1 already has a lead, saved by an earlier turn
StoreWithLead == save_lead(<<>>, WithScore([name |-> A]), "s1", 1).tbl

InitConc ==
    /\ \/ leads = <<>> /\ nextId = 0
       \/ leads = StoreWithLead /\ nextId = 1
    /\ analytics = <<>>
    /\ nOps = 0
    /\ last = NoOp
    /\ firstRet = [s \in Sessions |-> NoId]
    /\ procs = [p \in Procs |-> IdleProc]
    /\ dbLock = 0
    /\ session_lead = EmptyDict
    /\ InitChat
    /\ InitSessions

\* save_lead is entered: get_connection()
ConcCall(p, session_id, lead_data) ==
    /\ procs[p].pc = "idle"
    /\ procs' = [procs EXCEPT ![p] = [@ EXCEPT !.pc = "select", !.sid = session_id,
                                                !.ld = lead_data]]
    /\ UNCHANGED <<storeVars, sessVars, nOps, last, dbLock, session_lead, chatVars>>

\* SELECT id FROM leads WHERE session_id = ? ; existing_lead = fetchone()
ConcSelect(p) ==
    /\ procs[p].pc = "select"
    /\ procs' = [procs EXCEPT ![p] = [@ EXCEPT !.pc = "execute",
                     !.existing = SelectLeadId(leads, procs[p].sid)]]
    /\ UNCHANGED <<storeVars, sessVars, nOps, last, dbLock, session_lead, chatVars>>

\* the UPDATE or the INSERT statement: takes the write lock
ConcExecute(p) ==
    /\ procs[p].pc = "execute"
    /\ dbLock = 0
    /\ dbLock' = p
    /\ IF procs[p].existing # NoId
       THEN /\ procs' = [procs EXCEPT ![p] = [@ EXCEPT !.pc = "commit",
                                                        !.lead_id = procs[p].existing]]
            /\ nextId' = nextId
       ELSE /\ procs' = [procs EXCEPT ![p] = [@ EXCEPT !.pc = "commit",
                                                        !.lead_id = nextId + 1]]
            /\ nextId' = nextId + 1
    /\ UNCHANGED <<leads, analytics, firstRet, nOps, last, session_lead, chatVars, sessVars>>

\* the statement waited for the lock longer than the busy timeout:
\* sqlite3.OperationalError leaves save_lead
ConcBusy(p) ==
    /\ procs[p].pc = "execute"
    /\ dbLock \notin {0, p}
    /\ procs' = [procs EXCEPT ![p] = [@ EXCEPT !.pc = "failed"]]
    /\ UNCHANGED <<storeVars, sessVars, nOps, last, dbLock, session_lead, chatVars>>

\* conn.commit(); conn.close(); return lead_id
ConcCommit(p) ==
    /\ procs[p].pc = "commit"
    /\ dbLock = p
    /\ leads' = IF procs[p].existing # NoId
                THEN UpdateLead(leads, procs[p].ld, procs[p].existing)
                ELSE Append(leads, InsertLeadRow(procs[p].ld, procs[p].sid, procs[p].lead_id))
    /\ dbLock' = 0
    /\ procs' = [procs EXCEPT ![p] = [@ EXCEPT !.pc = "done"]]
    /\ nOps' = nOps + 1
    /\ last' = [op |-> "save_lead", sid |-> procs[p].sid, ld |-> procs[p].ld,
                id |-> NoId, ret |-> procs[p].lead_id, pre |-> leads]
    /\ UNCHANGED <<analytics, nextId, firstRet, session_lead, chatVars, sessVars>>

NextConc ==
    \/ \E p \in Procs, s \in Sessions, ld \in ConcInputs : ConcCall(p, s, ld)
    \/ \E p \in Procs : ConcSelect(p)
    \/ \E p \in Procs : ConcExecute(p)
    \/ \E p \in Procs : ConcBusy(p)
    \/ \E p \in Procs : ConcCommit(p)

SpecConc == InitConc /\ [][NextConc]_vars

\* both calls have returned a lead_id, and they were for the same session
BothDoneSameSession ==
    /\ \A p \in Procs : procs[p].pc = "done"
    /\ procs[1].sid = procs[2].sid

RowsOf(tbl, session_id) == {i \in 1..Len(tbl) : tbl[i].session_id = session_id}

\* C3: two concurrent save_lead calls for the same session_id leave exactly
\* one leads row for that session_id, whatever the order of their steps.
C3_ConcurrentOneRow ==
    BothDoneSameSession => Cardinality(RowsOf(leads, procs[1].sid)) = 1

\* the two snapshots each carry a contact field the other lacks
Complementary(a, b) ==
    /\ \E f \in ContactFields : Get(a, f, None) # None /\ Get(b, f, None) = None
    /\ \E f \in ContactFields : Get(b, f, None) # None /\ Get(a, f, None) = None

\* C4: two concurrent save_lead calls of one session whose snapshots each carry
\* a field the other lacks leave a stored lead that has the fields of both,
\* with the score and priority of the lead that has both.
C4_NoLostUpdate ==
    (BothDoneSameSession /\ Complementary(procs[1].ld, procs[2].ld)) =>
        LET row == RowOf(leads, procs[1].sid)
        IN  /\ \A p \in Procs : \A f \in ContactFields :
                   Get(procs[p].ld, f, None) # None => row[f] # None
            /\ row.score = calculate_lead_score(row, DEFAULT_SCORING)
            /\ row.priority = get_lead_priority(row.score)

----------------------------------------------------------------------------
(* Extraction passes: the two extractors applied to utterances in any order *)

NoMatches3 == <<None, None, None>>

NoMatches2 == <<None, None>>

\* an utterance in which no pattern matches
Silent ==
    [empty |-> FALSE, email |-> None, name |-> NoMatches3, phone |-> None,
     company |-> NoMatches2, interest |-> NoMatches2, budget |-> NoMatches2]

\* utterances for extract_lead_info_multilingual, by what the patterns find
Utterances ==
    { [Silent EXCEPT !.empty = TRUE],
      Silent,
      [Silent EXCEPT !.email = <<"A", "@", "b", ".", "c", "d">>,
                     !.name = <<<<"a", "l">>, None, None>>],
      [Silent EXCEPT !.email = <<"e", "@", "b", ".", "c", "d">>,
                     !.name = <<<<" ", "a">>, <<"b", "o">>, None>>,
                     !.phone = <<"5", "5", "5", "1", "2", "3", "4", "5", "6", "7">>],
      [Silent EXCEPT !.name = <<<<"e", "m", "a", "i", "l">>, None, <<"c", "y">>>>,
                     !.company = <<<<"a", "c", "m", "e">>, None>>,
                     !.interest = <<<<"c", "r", "m", " ", "x">>, None>>,
                     !.budget = <<<<"5", "0", "0">>, None>>],
      [Silent EXCEPT !.company = <<<<"a", "b">>, <<"i", "b", "m", " ", "c">>>>,
                     !.interest = <<<<"a", " ", " ", " ", " ">>, <<"s", "a", "l", "e", "s">>>>,
                     !.budget = <<None, <<"9">>>>,
                     !.phone = <<"(", "5", "5", "5", ")", " ", "1", "2", "3", "-",
                                 "9", "9", "9", "9">>] }

\* the locales of the rule table and one it does not have
Languages == {"en", "zh", "es", "fr"}

\* utterances for extract_lead_info_regex, by what the patterns find
AppSilent ==
    [text |-> "u0", email |-> None, phone |-> NoMatches3, name |-> NoMatches2,
     company |-> NoMatches2, interest |-> NoMatches2]

AppUtterances ==
    { AppSilent,
      [AppSilent EXCEPT !.text = "u1",
                        !.email = <<"a", "@", "b", ".", "c", "d">>,
                        !.name = <<<<"a", "l", "i", "c", "e">>, None>>],
      [AppSilent EXCEPT !.text = "u2",
                        !.email = <<"e", "@", "b", ".", "c", "d">>,
                        !.phone = <<None, <<"5", "5", "5", "-", "1", "2", "3", "-",
                                            "4", "5", "6", "7">>, None>>,
                        !.name = <<None, <<"b", "o", "b">>>>],
      [AppSilent EXCEPT !.text = "u3",
                        !.company = <<<<"a", "c", "m", "e">>, None>>,
                        !.interest = <<<<" ">>, None>>],
      [AppSilent EXCEPT !.text = "u4",
                        !.name = <<<<"c", "a", "r", "l">>, None>>,
                        !.interest = <<<<"A", "I">>, <<"c", "r", "m">>>>] }

\* the lead dictionaries a session starts an extraction pass with
InitialLeads ==
    { load_lead_data(<<>>, "s1"),
      load_lead_data(save_lead(<<>>, [email |-> <<"z", "@", "b", ".", "c", "d">>,
                                      name |-> <<>>], "s1", 1).tbl, "s1") }

InitExtract ==
    /\ leads = <<>>
    /\ analytics = <<>>
    /\ nextId = 0
    /\ nOps = 0
    /\ last = NoOp
    /\ firstRet = [s \in Sessions |-> NoId]
    /\ procs = <<>>
    /\ dbLock = 0
    /\ session_lead \in InitialLeads
    /\ InitChat
    /\ InitSessions

ApplyExtractMultilingual(user_input, language) ==
    /\ session_lead' = extract_lead_info_multilingual(user_input, language, session_lead)
    /\ last' = [op |-> "extract_lead_info_multilingual", user_input |-> user_input,
                language |-> language, pre |-> session_lead]
    /\ UNCHANGED <<storeVars, sessVars, concVars, nOps, chatVars>>

ApplyExtractRegex(user_input) ==
    /\ app_lead' = extract_lead_info_regex(user_input, app_lead)
    /\ last' = [op |-> "extract_lead_info_regex", user_input |-> user_input,
                pre |-> app_lead]
    /\ UNCHANGED <<storeVars, sessVars, concVars, nOps, session_lead, messages, message_counter,
                   lead_saved, csv, turn_pc>>

NextExtract ==
    \/ \E u \in Utterances, l \in Languages : ApplyExtractMultilingual(u, l)
    \/ \E u \in AppUtterances : ApplyExtractRegex(u)

SpecExtract == InitExtract /\ [][NextExtract]_vars

\* C1: every field of the lead that is populated before an extraction pass
\* of either extractor has the same value after it.
C1_ExtractFirstWriteWins ==
    /\ last.op = "extract_lead_info_multilingual" =>
           \A f \in ContactFields :
               Truthy(Get(last.pre, f, None)) => Get(session_lead, f, None) = last.pre[f]
    /\ last.op = "extract_lead_info_regex" =>
           \A f \in AppFields : PyTruthy(last.pre[f]) => app_lead[f] = last.pre[f]

\* a pass over an utterance that holds another email than the lead's
C1_Witness ==
    /\ last.op = "extract_lead_info_multilingual"
    /\ ~last.user_input.empty
    /\ Truthy(Get(last.pre, "email", None))
    /\ last.user_input.email # None
    /\ str_lower(last.user_input.email) # last.pre.email
    /\ session_lead.email = last.pre.email

----------------------------------------------------------------------------
(* A chat session: chat_page, one visitor message after another *)

S_crm == <<"c", "r", "m">>

S_demo == <<"d", "e", "m", "o">>

S_price == <<"p", "r", "i", "c", "e">>

\* outcomes of the completion call of analyze_conversation_with_openai
InferenceResults ==
    { [kind |-> "error"],
      [kind |-> "not_json"],
      [kind |-> "object", analysis |-> EmptyDict],
      [kind |-> "object",
       analysis |-> [implied_interests |-> PyStr(S_crm), industry |-> PyStr(<<"i", "t">>),
                     pain_points |-> PyNone,
                     buying_signals |-> PyList(<<PyStr(S_demo), PyStr(S_price), PyStr(S_demo)>>)]],
      [kind |-> "object",
       analysis |-> [implied_interests |-> PyList(<<PyStr(<<"a", "i">>), PyStr(S_crm)>>),
                     industry |-> PyInt(7),
                     pain_points |-> PyList(<<PyStr(<<"x">>), PyStr(<<"y">>)>>),
                     buying_signals |-> PyStr(S_demo)]],
      [kind |-> "object",
       analysis |-> [implied_interests |-> PyStr(S_crm),
                     pain_points |-> PyList(<<PyStr(<<"x">>), PyNone>>),
                     buying_signals |-> PyList(<<PyStr(S_price)>>)]] }

\* the visitor's message arrives: it is appended, counted, and the regex
\* extractor runs over it
TurnExtract(user_input) ==
    /\ turn_pc = "idle"
    /\ message_counter < MaxTurns
    /\ messages' = Append(messages, [role |-> "user", content |-> user_input.text])
    /\ message_counter' = message_counter + 1
    /\ app_lead' = extract_lead_info_regex(user_input, app_lead)
    /\ turn_pc' = "extracted"
    /\ last' = [op |-> "extract_lead_info_regex", user_input |-> user_input,
                pre |-> app_lead]
    /\ UNCHANGED <<storeVars, sessVars, concVars, nOps, session_lead, lead_saved, csv>>

\* mutant: the analysis runs at every second message
TurnAnalyze_EverySecond(response) ==
    /\ turn_pc = "extracted"
    /\ message_counter % 2 = 0
    /\ app_lead' = analyze_conversation_with_openai(app_lead, Len(messages), response)
    /\ turn_pc' = "analyzed"
    /\ last' = [op |-> "analyze_conversation_with_openai", response |-> response,
                pre |-> app_lead, called |-> InferenceCalled(Len(messages)),
                turn |-> last]
    /\ UNCHANGED <<storeVars, sessVars, concVars, nOps, session_lead, messages, message_counter,
                   lead_saved, csv>>

\* every third message: analyze_conversation_with_openai()
TurnAnalyze(response) ==
    /\ turn_pc = "extracted"
    /\ message_counter % 3 = 0
    /\ app_lead' = analyze_conversation_with_openai(app_lead, Len(messages), response)
    /\ turn_pc' = "analyzed"
    /\ last' = [op |-> "analyze_conversation_with_openai", response |-> response,
                pre |-> app_lead, called |-> InferenceCalled(Len(messages)),
                turn |-> last]
    /\ UNCHANGED <<storeVars, sessVars, concVars, nOps, session_lead, messages, message_counter,
                   lead_saved, csv>>

\* the other messages go on to the reply
TurnSkipAnalysis ==
    /\ turn_pc = "extracted"
    /\ message_counter % 3 # 0
    /\ turn_pc' = "analyzed"
    /\ last' = [op |-> "skip_analysis", pre |-> app_lead, turn |-> last]
    /\ UNCHANGED <<storeVars, sessVars, concVars, nOps, session_lead, app_lead, messages,
                   message_counter, lead_saved, csv>>

\* mutant: the lead is written although it has been saved
ShouldSaveLead_Again(lead, saved, n_messages) ==
    /\ PyTruthy(lead.email) \/ PyTruthy(lead.phone)
    /\ lead.lead_score >= 30 \/ n_messages >= 6

\* "Check if we should save the lead": the two conditions of chat_page
ShouldSaveLead(lead, saved, n_messages) ==
    /\ PyTruthy(lead.email) \/ PyTruthy(lead.phone)
    /\ ~saved
    /\ lead.lead_score >= 30 \/ n_messages >= 6

\* get_openai_response (the reply, or the fallback when the call raises), the
\* assistant message, and the save of the lead to leads.csv
TurnReply(call_ok) ==
    /\ turn_pc = "analyzed"
    /\ LET assistant_response == get_openai_response(call_ok)
           history == Append(messages, [role |-> "assistant", content |-> assistant_response])
           save == ShouldSaveLead(app_lead, lead_saved, Len(history))
       IN  /\ messages' = history
           /\ csv' = IF save THEN Append(csv, app_lead) ELSE csv
           /\ lead_saved' = (lead_saved \/ save)
    /\ turn_pc' = "idle"
    /\ last' = [op |-> "get_openai_response", call_ok |-> call_ok, pre |-> app_lead,
                prev |-> last, saved_before |-> lead_saved]
    /\ UNCHANGED <<storeVars, sessVars, concVars, nOps, session_lead, app_lead, message_counter>>

NextChat ==
    \/ \E u \in AppUtterances : TurnExtract(u)
    \/ \E r \in InferenceResults : TurnAnalyze(r)
    \/ TurnSkipAnalysis
    \/ \E ok \in BOOLEAN : TurnReply(ok)

SpecChat == Init /\ [][NextChat]_vars

\* C8: whenever extract_lead_info_regex or analyze_conversation_with_openai
\* has returned (normally or through its exception handler) with a lead whose
\* fields are no longer those of a new session, lead_score is the weighted
\* sum over the lead's fields and buying signals, and lead_status is the tier
\* of that score.
C8_ScoreRecomputed ==
    (/\ last.op \in {"extract_lead_info_regex", "analyze_conversation_with_openai"}
     /\ \E f \in DOMAIN app_lead \ {"lead_score", "lead_status"} :
            app_lead[f] # NewAppLead[f]) =>
        /\ app_lead.lead_score = AppScore(app_lead)
        /\ app_lead.lead_status = AppTier(app_lead.lead_score)

----------------------------------------------------------------------------
(* The store together with the passes that feed it: a session's lead is     *)
(* loaded, extended by extraction passes and saved, the dashboard sets the  *)
(* status, and chat sessions run their turns.                               *)

\* SessionManager.initialize_session_state: the lead of the session is loaded
LoadLeadData(session_id) ==
    /\ nOps < MaxOps
    /\ session_lead' = load_lead_data(leads, session_id)
    /\ last' = [op |-> "load_lead_data", sid |-> session_id, pre |-> leads,
                prev |-> [op |-> last.op, sid |-> Get(last, "sid", NoSession),
                          ld |-> Get(last, "ld", EmptyDict), pre |-> last.pre]]
    /\ nOps' = nOps + 1
    /\ UNCHANGED <<storeVars, sessVars, concVars, chatVars>>

\* an extraction pass over the loaded lead
ExtractIntoSession(user_input, language) ==
    /\ nOps < MaxOps
    /\ session_lead' = extract_lead_info_multilingual(user_input, language, session_lead)
    /\ last' = [op |-> "extract_lead_info_multilingual", user_input |-> user_input,
                language |-> language, pre |-> session_lead]
    /\ nOps' = nOps + 1
    /\ UNCHANGED <<storeVars, sessVars, concVars, chatVars>>

PipelineLeadInputs ==
    { ld \in LeadInputs : "status" \in DOMAIN ld /\ Get(ld, "name", None) = None }

PipelineUtterances == { u \in Utterances : u.phone # None /\ u.email # None }

PipelineAppUtterances == { u \in AppUtterances : u.text \in {"u0", "u1"} }

PipelineResults ==
    { r \in InferenceResults :
        r.kind = "object" /\ PyTruthy(AGet(r.analysis, "industry")) }

NextPipeline ==
    \/ \E ld \in PipelineLeadInputs : SaveLeadData("s1", ld)
    \/ SaveLeadData("s1", session_lead)
    \/ \E id \in LeadIds(leads) : UpdateLeadStatus(id, "contacted", None)
    \/ LoadLeadData("s1")
    \/ \E u \in PipelineUtterances : ExtractIntoSession(u, "en")
    \/ \E u \in PipelineAppUtterances : TurnExtract(u)
    \/ \E r \in PipelineResults : TurnAnalyze(r)
    \/ TurnSkipAnalysis
    \/ TurnReply(TRUE)

SpecPipeline == Init /\ [][NextPipeline]_vars

\* C9: the status of a stored lead changes only in update_lead_status; no
\* save_lead for a session that has a lead, no extraction pass and no
\* inference merge changes it.
C9_StatusOnlyByUpdateStatus ==
    [][/\ \A i \in 1..Len(leads) :
            leads'[i].status # leads[i].status => last'.op = "update_lead_status"
       /\ \A i \in 1..Len(csv) : csv'[i] = csv[i]]_vars

\* a save_lead whose partial lead carries another status than the stored one
C9_Witness ==
    /\ SavedExisting
    /\ "status" \in DOMAIN last.ld
    /\ last.ld.status # RowOf(last.pre, last.sid).status
    /\ RowOf(leads, last.sid).status = RowOf(last.pre, last.sid).status

----------------------------------------------------------------------------
(* The tier functions over the whole range of scores.                       *)

InitPriority ==
    /\ leads = <<>>
    /\ analytics = <<>>
    /\ nextId = 0
    /\ nOps = 0
    /\ firstRet = [s \in Sessions |-> NoId]
    /\ procs = <<>>
    /\ dbLock = 0
    /\ session_lead = EmptyDict
    /\ InitChat
    /\ InitSessions
    /\ \E score \in 0..MaxScore : last = [op |-> "score", score |-> score]

\* multilanguage.get_lead_priority applied to the score
GetLeadPriority ==
    /\ last.op = "score"
    /\ last' = [op |-> "get_lead_priority", score |-> last.score,
                priority |-> get_lead_priority(last.score)]
    /\ UNCHANGED <<storeVars, sessVars, concVars, chatVars, nOps, session_lead>>

\* the status assignment that ends app.calculate_lead_score
AssignLeadStatus ==
    /\ last.op = "score"
    /\ last' = [op |-> "calculate_lead_score", score |-> last.score,
                lead_status |-> AppTier(last.score)]
    /\ UNCHANGED <<storeVars, sessVars, concVars, chatVars, nOps, session_lead>>

NextPriority == GetLeadPriority \/ AssignLeadStatus

SpecPriority == InitPriority /\ [][NextPriority]_vars

\* the order of the tiers; app.py names them Cold, Warm and Hot
TierRank(tier) ==
    IF tier \in {"low", "Cold"} THEN 0
    ELSE IF tier \in {"medium", "Warm"} THEN 1
    ELSE 2

\* C10: the tier is a monotonic non-decreasing, piecewise-constant function
\* of the score with boundaries at 40 and 70: a score below 40 is low, a score
\* from 40 to 69 is medium, a score of 70 or more is high, in
\* get_lead_priority and in the status assignment of app.calculate_lead_score
\* (which names the three tiers Cold, Warm and Hot).
C10_PriorityThresholds ==
    /\ last.op = "get_lead_priority" =>
           /\ last.score < 40 => last.priority = "low"
           /\ (last.score >= 40 /\ last.score <= 69) => last.priority = "medium"
           /\ last.score >= 70 => last.priority = "high"
           /\ \A lower \in 0..last.score :
                  TierRank(get_lead_priority(lower)) <= TierRank(last.priority)
    /\ last.op = "calculate_lead_score" =>
           /\ last.score < 40 => last.lead_status = "Cold"
           /\ (last.score >= 40 /\ last.score <= 69) => last.lead_status = "Warm"
           /\ last.score >= 70 => last.lead_status = "Hot"
           /\ \A lower \in 0..last.score :
                  TierRank(AppTier(lower)) <= TierRank(last.lead_status)

\* the boundary score 70 has been classified as high
C10_Witness ==
    /\ last.op = "get_lead_priority"
    /\ last.score = 70
    /\ last.priority = "high"

----------------------------------------------------------------------------
(* The two scorers over every combination of present and absent fields,     *)
(* every number of buying signals and a set of scoring configurations.      *)

ScoredFields ==
    {"email", "phone", "company", "budget", "interest", "name", "industry", "pain_points"}

\* the i-th of a list of distinct signal strings
Signal(i) == <<"s">> \o [j \in 1..i |-> "x"]

\* the lead dict of the session pipeline with the fields of present set
DictLead(present, n_signals) ==
    [f \in ContactFields \cup {"buying_signals"} |->
        IF f = "buying_signals" THEN [i \in 1..n_signals |-> Signal(i)]
        ELSE IF f \in present THEN A ELSE None]

\* the lead of the chat page with the fields of present set
AppLead(present, n_signals) ==
    [f \in DOMAIN NewAppLead |->
        IF f = "buying_signals" THEN [i \in 1..n_signals |-> PyStr(Signal(i))]
        ELSE IF f \in {"lead_score", "lead_status"} THEN NewAppLead[f]
        ELSE IF f \in present THEN PyStr(A) ELSE PyNone]

\* config["lead_qualification"]["scoring"]: the defaults, a config file
\* without the section, weights above the defaults, a negative weight
ScoringConfigs ==
    { DEFAULT_SCORING,
      EmptyDict,
      [DEFAULT_SCORING EXCEPT !.email_provided = 50, !.phone_provided = 50,
                              !.company_provided = 50],
      [DEFAULT_SCORING EXCEPT !.email_provided = -5] }

InitScore ==
    /\ leads = <<>>
    /\ analytics = <<>>
    /\ nextId = 0
    /\ nOps = 0
    /\ firstRet = [s \in Sessions |-> NoId]
    /\ procs = <<>>
    /\ dbLock = 0
    /\ session_lead = EmptyDict
    /\ InitChat
    /\ InitSessions
    /\ \E present \in SUBSET ScoredFields, n_signals \in 0..MaxSignals,
          config \in ScoringConfigs :
           last = [op |-> "lead", present |-> present, n_signals |-> n_signals,
                   config |-> config]

\* multilanguage.calculate_lead_score, then get_lead_priority of the score
ScoreLead ==
    /\ last.op = "lead"
    /\ LET lead == DictLead(last.present, last.n_signals)
           score == calculate_lead_score(lead, last.config)
       IN  last' = [op |-> "calculate_lead_score", present |-> last.present,
                    n_signals |-> last.n_signals, config |-> last.config,
                    lead |-> lead, score |-> score,
                    priority |-> get_lead_priority(score)]
    /\ UNCHANGED <<storeVars, sessVars, concVars, chatVars, nOps, session_lead>>

\* app.calculate_lead_score on the lead of the chat page
ScoreAppLead ==
    /\ last.op = "lead"
    /\ LET lead == app_calculate_lead_score(AppLead(last.present, last.n_signals))
       IN  last' = [op |-> "app_calculate_lead_score", present |-> last.present,
                    n_signals |-> last.n_signals, config |-> last.config,
                    lead |-> lead, score |-> lead.lead_score,
                    priority |-> lead.lead_status]
    /\ UNCHANGED <<storeVars, sessVars, concVars, chatVars, nOps, session_lead>>

NextScore == ScoreLead \/ ScoreAppLead

SpecScore == InitScore /\ [][NextScore]_vars

\* the weighted sum of the reference weights, clamped to 100
ReferenceScore(present, n_signals) ==
    LET w(f, points) == IF f \in present THEN points ELSE 0
    IN  Min(w("email", 30) + w("phone", 20) + w("company", 15) + w("budget", 15)
            + w("interest", 10) + w("name", 10) + Min(10 * n_signals, 30), 100)

\* C11: with the default configuration, for every combination of present
\* fields and every number of buying signals, the score computed by either
\* scorer is the sum of email 30, phone 20, company 15, budget 15, interest 10,
\* name 10 and 10 per buying signal capped at 30, clamped to 100.
C11_ReferenceWeights ==
    /\ (last.op = "calculate_lead_score" /\ last.config = DEFAULT_SCORING) =>
           last.score = ReferenceScore(last.present, last.n_signals)
    /\ last.op = "app_calculate_lead_score" =>
           last.score = ReferenceScore(last.present \cap DOMAIN NewAppLead, last.n_signals)

\* C12: for every lead and every scoring configuration, and for every lead
\* of the chat page, the score lies in 0..100.
C12_ScoreInRange ==
    last.op \in {"calculate_lead_score", "app_calculate_lead_score"} =>
        (last.score >= 0 /\ last.score <= 100)

----------------------------------------------------------------------------
(* The store under partial leads that carry every combination of the score  *)
(* and priority keys.                                                       *)

ScoreKeyInputs ==
    { [email |-> A],
      [email |-> A, score |-> 80],
      [phone |-> A, priority |-> "high"],
      [name |-> A, score |-> 40, priority |-> "medium"],
      [company |-> A, score |-> 10, priority |-> "high"] }

NextScoreKeys ==
    \/ \E s \in Sessions, ld \in ScoreKeyInputs : SaveLeadData(s, ld)
    \/ \E id \in LeadIds(leads), st \in StatusInputs : UpdateLeadStatus(id, st, None)

SpecScoreKeys == Init /\ [][NextScoreKeys]_vars

\* C13: every row of the leads table has the priority that is the tier of
\* the row's score (low below 40, medium from 40 to 69, high from 70).
C13_PriorityOfStoredScore ==
    \A i \in 1..Len(leads) : leads[i].priority = get_lead_priority(leads[i].score)

----------------------------------------------------------------------------
(* Turns of a session: an extraction pass followed by the scorer and the    *)
(* priority of the score.  The utterance "My name is Alice, my email is     *)
(* alice@example.com" is given by what the patterns of each extractor find  *)
(* in it.                                                                   *)

S_Alice == <<"A", "l", "i", "c", "e">>

S_alice_email ==
    <<"a", "l", "i", "c", "e", "@", "e", "x", "a", "m", "p", "l", "e", ".", "c", "o", "m">>

\* the first name pattern captures "Alice", the third "is Alice"
AliceUtterance ==
    [Silent EXCEPT !.email = S_alice_email,
                   !.name = <<S_Alice, None, <<"i", "s", " ">> \o S_Alice>>]

AliceAppUtterance ==
    [AppSilent EXCEPT !.text = "alice", !.email = S_alice_email,
                      !.name = <<S_Alice, None>>]

\* one turn of the session pipeline: extraction, score, priority
ExtractAndScore(user_input, language) ==
    /\ LET lead == extract_lead_info_multilingual(user_input, language, session_lead)
           score == calculate_lead_score(lead, DEFAULT_SCORING)
       IN  session_lead' = Put(Put(lead, "score", score),
                               "priority", get_lead_priority(score))
    /\ last' = [op |-> "turn", user_input |-> user_input, language |-> language,
                pre |-> session_lead]
    /\ UNCHANGED <<storeVars, sessVars, concVars, nOps, chatVars>>

NextScenario ==
    \/ \E u \in Utterances \cup {AliceUtterance} : ExtractAndScore(u, "en")
    \/ \E u \in {AppSilent, AliceAppUtterance} : ApplyExtractRegex(u)

SpecScenario == InitExtract /\ [][NextScenario]_vars

\* C14: starting from an empty lead, one English turn with the utterance
\* "My name is Alice, my email is alice@example.com" yields a lead with name
\* "Alice", email "alice@example.com", score 40 and the medium tier, in the
\* session pipeline and on the chat page.
C14_AliceScenario ==
    /\ (/\ last.op = "turn"
        /\ last.user_input = AliceUtterance
        /\ last.language = "en"
        /\ last.pre = load_lead_data(<<>>, "s1")) =>
           /\ session_lead.name = S_Alice
           /\ session_lead.email = S_alice_email
           /\ session_lead.score = 40
           /\ session_lead.priority = "medium"
    /\ (/\ last.op = "extract_lead_info_regex"
        /\ last.user_input = AliceAppUtterance
        /\ last.pre = NewAppLead) =>
           /\ app_lead.name = PyStr(S_Alice)
           /\ app_lead.email = PyStr(S_alice_email)
           /\ app_lead.lead_score = 40
           /\ app_lead.lead_status = "Warm"

----------------------------------------------------------------------------
(* Inference merges and extraction passes over the lead of the chat page,   *)
(* in any order: the session has a history of one or of three messages.     *)

HistoryOf3 ==
    <<[role |-> "assistant", content |-> "welcome"],
      [role |-> "user", content |-> "u0"],
      [role |-> "assistant", content |-> "reply"]>>

InitMerge ==
    /\ leads = <<>>
    /\ analytics = <<>>
    /\ nextId = 0
    /\ nOps = 0
    /\ last = NoOp
    /\ firstRet = [s \in Sessions |-> NoId]
    /\ procs = <<>>
    /\ dbLock = 0
    /\ session_lead = EmptyDict
    /\ app_lead = NewAppLead
    /\ messages \in {SubSeq(HistoryOf3, 1, 1), HistoryOf3}
    /\ message_counter = 0
    /\ lead_saved = FALSE
    /\ csv = <<>>
    /\ turn_pc = "idle"
    /\ InitSessions

ApplyAnalyze(response) ==
    /\ app_lead' = analyze_conversation_with_openai(app_lead, Len(messages), response)
    /\ last' = [op |-> "analyze_conversation_with_openai", response |-> response,
                pre |-> app_lead, called |-> InferenceCalled(Len(messages))]
    /\ UNCHANGED <<storeVars, sessVars, concVars, nOps, session_lead, messages, message_counter,
                   lead_saved, csv, turn_pc>>

NextMerge ==
    \/ \E r \in InferenceResults : ApplyAnalyze(r)
    \/ \E u \in AppUtterances : ApplyExtractRegex(u)

SpecMerge == InitMerge /\ [][NextMerge]_vars

NoDuplicates(l) == \A i, j \in 1..Len(l) : l[i] = l[j] => i = j

IsPrefix(l, m) == Len(l) <= Len(m) /\ SubSeq(m, 1, Len(l)) = l

\* the buying signals of an inference result, as a list
SignalsOf(response) ==
    IF response.kind # "object" THEN <<>>
    ELSE LET buying_signals == AGet(response.analysis, "buying_signals")
         IN  IF buying_signals.t = "list" THEN buying_signals.v
             ELSE IF buying_signals.t = "str" THEN <<buying_signals>>
             ELSE <<>>

\* C15: after any sequence of inference merges no signal occurs twice in
\* buying_signals; a merge keeps the signals it found, in their order, as a
\* prefix of the list; a merge whose signals are all present leaves the list
\* unchanged.
C15_SignalsAppendOnlyDedup ==
    /\ NoDuplicates(app_lead.buying_signals)
    /\ last.op = "analyze_conversation_with_openai" =>
           /\ IsPrefix(last.pre.buying_signals, app_lead.buying_signals)
           /\ (\A i \in 1..Len(SignalsOf(last.response)) :
                   InList(SignalsOf(last.response)[i], last.pre.buying_signals))
                  => app_lead.buying_signals = last.pre.buying_signals

\* a merge of a reply that repeats a signal of the lead and brings a new one
C15_Witness ==
    /\ last.op = "analyze_conversation_with_openai"
    /\ last.pre.buying_signals # <<>>
    /\ \E i \in 1..Len(SignalsOf(last.response)) :
           InList(SignalsOf(last.response)[i], last.pre.buying_signals)
    /\ Len(app_lead.buying_signals) > Len(last.pre.buying_signals)

----------------------------------------------------------------------------
(* Cadence of the inference call in a chat session *)

\* C16: over the turns of a chat session, the completion call of
\* analyze_conversation_with_openai is made only when the length of the
\* conversation history is a multiple of 3, and never when the history holds
\* fewer than 3 messages.
C16_InferenceCadence ==
    (last.op = "analyze_conversation_with_openai" /\ last.called) =>
        (Len(messages) % 3 = 0 /\ Len(messages) >= 3)

\* the completion call of the third message, over a history of 6 messages
C16_Witness ==
    /\ last.op = "analyze_conversation_with_openai"
    /\ last.called
    /\ message_counter = 3
    /\ Len(messages) = 6

----------------------------------------------------------------------------
(* Failed inference *)

\* a value the analysis prompt asks for: null, a string or a list of strings
ExpectedValue(v) ==
    \/ v.t \in {"None", "str"}
    \/ v.t = "list" /\ \A i \in 1..Len(v.v) : v.v[i].t = "str"

\* the completion call raised or timed out, the reply is not JSON, or some
\* key of the reply holds a value of an unexpected type
FailedInference(response) ==
    \/ response.kind \in {"error", "not_json"}
    \/ /\ response.kind = "object"
       /\ \E k \in DOMAIN response.analysis : ~ExpectedValue(response.analysis[k])

\* C17: when the inference fails (the call raises or times out, the reply is
\* not the expected JSON object, or a key holds a value of an unexpected
\* type), every field of the lead, the score and the tier have after
\* analyze_conversation_with_openai the values they had before it.
C17_FailedInferenceSkipsMerge ==
    (last.op = "analyze_conversation_with_openai" /\ FailedInference(last.response)) =>
        app_lead = last.pre

----------------------------------------------------------------------------
(* A turn whose inference call fails *)

\* the fields the extraction pass of a turn captured
Captured(extract_pre, extract_post) ==
    {f \in AppFields : ~PyTruthy(extract_pre[f]) /\ PyTruthy(extract_post[f])}

\* the turn that has just ended ran the inference and its call raised
TurnWithFailedCall ==
    /\ last.op = "get_openai_response"
    /\ last.prev.op = "analyze_conversation_with_openai"
    /\ last.prev.called
    /\ last.prev.response.kind = "error"

----------------------------------------------------------------------------
(* Merge policy of the inference for the scalar fields *)

InferredFields == {"interest", "industry", "pain_points"}

\* C19: each of interest, industry and pain_points that is populated before
\* analyze_conversation_with_openai runs has the same value after it,
\* whatever the inference result; only a field that was empty can differ.
C19_MergeFirstWriteWins ==
    last.op = "analyze_conversation_with_openai" =>
        /\ \A f \in InferredFields :
               PyTruthy(last.pre[f]) => app_lead[f] = last.pre[f]
        /\ \A f \in AppFields \ InferredFields : app_lead[f] = last.pre[f]

\* a merge over a lead whose interest is set, with a reply that brings
\* another interest and fills the industry
C19_Witness ==
    /\ last.op = "analyze_conversation_with_openai"
    /\ last.called
    /\ last.response.kind = "object"
    /\ PyTruthy(last.pre.interest)
    /\ PyTruthy(AGet(last.response.analysis, "implied_interests"))
    /\ AGet(last.response.analysis, "implied_interests") # last.pre.interest
    /\ ~PyTruthy(last.pre.industry)
    /\ PyTruthy(app_lead.industry)

----------------------------------------------------------------------------
(* Session resolution (session_manager.py, database.py).  The timestamp     *)
(* last_active is kept as "recent" or "old": old is more than 30 days ago.  *)

\* DatabaseManager.get_session: the row of the id, if any
SessionRows(tbl, id) == {i \in 1..Len(tbl) : tbl[i].id = id}

\* mutant: the session is taken when it has a row, active or not
ActiveSession_AnyRow(tbl, id) == SessionRows(tbl, id) # {}

\* session_data and session_data['is_active']
ActiveSession(tbl, id) == \E i \in SessionRows(tbl, id) : tbl[i].is_active

\* DatabaseManager.update_session_activity
update_session_activity(tbl, id) ==
    [i \in 1..Len(tbl) |->
        IF tbl[i].id = id THEN [tbl[i] EXCEPT !.last_active = "recent"] ELSE tbl[i]]

\* DatabaseManager.create_session: the table with the row of a fresh id
create_session(tbl, fresh_id) ==
    Append(tbl, [id |-> fresh_id, language |-> "en", last_active |-> "recent",
                 is_active |-> TRUE])

\* mutant: the session bound to the conversation is not looked at
get_or_create_session_AlwaysNew(tbl, bound, fresh_id) ==
    [tbl |-> create_session(tbl, fresh_id), session_id |-> fresh_id, created |-> TRUE]

\* SessionManager.get_or_create_session: the sessions table it leaves, the
\* session_id it returns and binds, and whether it created the session
get_or_create_session(tbl, bound, fresh_id) ==
    IF bound # NoId /\ ActiveSession(tbl, bound)
    THEN [tbl |-> update_session_activity(tbl, bound), session_id |-> bound,
          created |-> FALSE]
    ELSE [tbl |-> create_session(tbl, fresh_id), session_id |-> fresh_id, created |-> TRUE]

GetOrCreateSession(c) ==
    /\ nOps < MaxOps
    /\ LET r == get_or_create_session(sessions, state_session_id[c], Len(sessions) + 1)
       IN  /\ sessions' = r.tbl
           /\ state_session_id' = [state_session_id EXCEPT ![c] = r.session_id]
           /\ analytics' = IF r.created
                           THEN log_analytics_event(analytics, "session_created",
                                                    r.session_id, NoId)
                           ELSE analytics
           /\ last' = [op |-> "get_or_create_session", conversation |-> c,
                       bound |-> state_session_id[c], ret |-> r.session_id,
                       pre |-> sessions, pre_leads |-> leads,
                       pre_conversations |-> conversations]
    /\ nOps' = nOps + 1
    /\ UNCHANGED <<leads, nextId, firstRet, concVars, session_lead, chatVars,
                   conversations, clock>>

\* more than 30 days pass without activity
DaysPass ==
    /\ sessions' = [i \in 1..Len(sessions) |-> [sessions[i] EXCEPT !.last_active = "old"]]
    /\ last' = [op |-> "days_pass", pre |-> sessions]
    /\ UNCHANGED <<storeVars, concVars, chatVars, nOps, session_lead, state_session_id,
                   conversations, clock>>

\* a row of the sessions table was last active before the threshold
IsOld(row) == row.last_active = "old"

\* a row of the sessions table was active within the threshold
IsRecent(row) == ~IsOld(row)

\* mutant: the sweep deletes the old sessions
cleanup_old_sessions_Delete(tbl) == SelectSeq(tbl, IsRecent)

\* DatabaseManager.cleanup_old_sessions:
\* UPDATE sessions SET is_active = 0 WHERE last_active < now - 30 days
cleanup_old_sessions(tbl) ==
    [i \in 1..Len(tbl) |->
        IF IsOld(tbl[i]) THEN [tbl[i] EXCEPT !.is_active = FALSE] ELSE tbl[i]]

\* the dashboard's cleanup button
CleanupOldSessions ==
    /\ dbLock = 0
    /\ sessions' = cleanup_old_sessions(sessions)
    /\ last' = [op |-> "cleanup_old_sessions", pre |-> sessions, pre_leads |-> leads,
                pre_conversations |-> conversations]
    /\ UNCHANGED <<storeVars, concVars, chatVars, nOps, session_lead, state_session_id,
                   conversations, clock>>

NextSessions ==
    \/ \E c \in Conversations : GetOrCreateSession(c)
    \/ DaysPass
    \/ CleanupOldSessions

SpecSessions == Init /\ [][NextSessions]_vars

\* the call found the conversation bound to an active session of the store
BoundToActive == last.bound # NoId /\ ActiveSession(last.pre, last.bound)

\* C20 as stated: a call for a conversation bound to an active session of the
\* store returns that session_id and adds no sessions row, and a sessions row
\* is added only when no session is bound.
C20_SessionResolution ==
    last.op = "get_or_create_session" =>
        /\ BoundToActive => (last.ret = last.bound /\ Len(sessions) = Len(last.pre))
        /\ Len(sessions) > Len(last.pre) => last.bound = NoId

\* C20 amended: a call for a conversation bound to an active session of the
\* store returns that session_id and adds no sessions row, and a sessions row
\* is added only when no session is bound or the bound session is missing
\* from the store or inactive.
C20_SessionResolutionAmended ==
    last.op = "get_or_create_session" =>
        /\ BoundToActive => (last.ret = last.bound /\ Len(sessions) = Len(last.pre))
        /\ Len(sessions) > Len(last.pre) => ~BoundToActive

\* a further call of a conversation bound to an active session
C20_Witness ==
    /\ last.op = "get_or_create_session"
    /\ BoundToActive
    /\ last.ret = last.bound
    /\ Len(sessions) = Len(last.pre)

----------------------------------------------------------------------------
(* The conversations table and the retention sweep (database.py) *)

\* longest conversations table explored
MaxMessages == 6

\* longest conversations table explored together with concurrent save_lead calls
MaxSweepMessages == 2

\* latest value of CURRENT_TIMESTAMP explored
MaxClock == 1

Roles == {"user", "assistant"}

MessageContents == {<<"h", "i">>}

\* DatabaseManager.save_conversation_message: the INSERT; timestamp takes the
\* column default CURRENT_TIMESTAMP
save_conversation_message(tbl, session_id, role, content, now, fresh_id) ==
    Append(tbl, [id |-> fresh_id, session_id |-> session_id, role |-> role,
                 content |-> content, timestamp |-> now])

\* the ids of the sessions table
SessionIds(tbl) == {tbl[i].id : i \in 1..Len(tbl)}

SaveConversationMessage(session_id, role, content) ==
    /\ dbLock = 0
    /\ Len(conversations) < MaxMessages
    /\ conversations' = save_conversation_message(conversations, session_id, role, content,
                                                  clock, Len(conversations) + 1)
    /\ last' = [op |-> "save_conversation_message", sid |-> session_id,
                pre |-> conversations]
    /\ UNCHANGED <<storeVars, concVars, chatVars, nOps, session_lead, sessions,
                   state_session_id, clock>>

\* a second passes
Tick ==
    /\ clock < MaxClock
    /\ clock' = clock + 1
    /\ UNCHANGED <<storeVars, concVars, chatVars, nOps, last, session_lead, sessions,
                   state_session_id, conversations>>

\* the UPDATE of cleanup_old_sessions waited for the write lock longer than the
\* busy timeout: sqlite3.OperationalError leaves cleanup_old_sessions
CleanupBusy ==
    /\ dbLock # 0
    /\ last' = [op |-> "cleanup_busy", pre |-> sessions, pre_leads |-> leads,
                pre_conversations |-> conversations]
    /\ UNCHANGED <<storeVars, concVars, chatVars, nOps, session_lead, sessVars>>

RetentionInputs == { WithScore([name |-> A, email |-> B]) }

InitRetention ==
    /\ leads = <<>>
    /\ nextId = 0
    /\ analytics = <<>>
    /\ nOps = 0
    /\ last = NoOp
    /\ firstRet = [s \in Sessions |-> NoId]
    /\ procs = [p \in Procs |-> IdleProc]
    /\ dbLock = 0
    /\ session_lead = EmptyDict
    /\ InitChat
    /\ InitSessions

NextRetention ==
    \/ GetOrCreateSession("c1")
    \/ DaysPass
    \/ CleanupOldSessions
    \/ CleanupBusy
    \/ \E s \in SessionIds(sessions), m \in MessageContents :
           Len(conversations) < MaxSweepMessages /\ SaveConversationMessage(s, "user", m)
    \/ \E p \in Procs, s \in SessionIds(sessions), ld \in RetentionInputs : ConcCall(p, s, ld)
    \/ \E p \in Procs : ConcSelect(p)
    \/ \E p \in Procs : ConcExecute(p)
    \/ \E p \in Procs : ConcBusy(p)
    \/ \E p \in Procs : ConcCommit(p)

SpecRetention == InitRetention /\ [][NextRetention]_vars

\* C21: a cleanup_old_sessions run, at any point between the statements of
\* live save_lead and save_conversation_message calls, leaves the leads and
\* the conversations table as they were, deletes no sessions row, changes no
\* sessions column other than is_active, and sets is_active only to false.
C21_SweepOnlyFlipsActive ==
    last.op = "cleanup_old_sessions" =>
        /\ leads = last.pre_leads
        /\ conversations = last.pre_conversations
        /\ Len(sessions) = Len(last.pre)
        /\ \A i \in 1..Len(last.pre) :
               /\ [sessions[i] EXCEPT !.is_active = last.pre[i].is_active] = last.pre[i]
               /\ sessions[i].is_active => last.pre[i].is_active

\* a sweep that deactivated a session while a save_lead call was between its
\* SELECT and its write, with a lead and a message in the store
C21_Witness ==
    /\ last.op = "cleanup_old_sessions"
    /\ \E i \in 1..Len(last.pre) : last.pre[i].is_active /\ ~sessions[i].is_active
    /\ Len(leads) > 0
    /\ Len(conversations) > 0
    /\ \E p \in Procs : procs[p].pc = "execute"

----------------------------------------------------------------------------
(* Reading the message log back (database.py) *)

\* WHERE session_id = ? : the rows of the session, in rowid order
SessionMessages(tbl, session_id) ==
    LET OfSession(row) == row.session_id = session_id
    IN  SelectSeq(tbl, OfSession)

\* ORDER BY timestamp ASC. With a LIMIT, SQLite sorts through a temporary
\* b-tree whose key ends in the sequence number of the scanned row, so rows
\* of one timestamp stay in scan order.
OrderByTimestamp(rows) ==
    LET Before(j, i) ==
            \/ rows[j].timestamp < rows[i].timestamp
            \/ rows[j].timestamp = rows[i].timestamp /\ j < i
        Rank(i) == Cardinality({j \in 1..Len(rows) : Before(j, i)}) + 1
    IN  [k \in 1..Len(rows) |-> rows[CHOOSE i \in 1..Len(rows) : Rank(i) = k]]

\* the dictionary get_conversation_history builds of a row
HistoryEntry(row) ==
    [id |-> row.id, role |-> row.role, content |-> row.content,
     timestamp |-> row.timestamp]

\* DatabaseManager.get_conversation_history
get_conversation_history(tbl, session_id, limit) ==
    LET rows == OrderByTimestamp(SessionMessages(tbl, session_id))
    IN  [i \in 1..Min(limit, Len(rows)) |-> HistoryEntry(rows[i])]

\* the limits the callers pass: limit=5 of resume_conversation_prompt and the
\* default 50 of load_conversation_history and get_session_analytics
HistoryLimits == {5, 50}

GetConversationHistory(session_id, limit) ==
    /\ last' = [op |-> "get_conversation_history", sid |-> session_id, limit |-> limit,
                ret |-> get_conversation_history(conversations, session_id, limit),
                pre |-> conversations]
    /\ UNCHANGED <<storeVars, concVars, chatVars, nOps, session_lead, sessVars>>

NextLog ==
    \/ \E s \in Sessions, m \in MessageContents : SaveConversationMessage(s, "user", m)
    \/ Tick
    \/ \E s \in Sessions, l \in HistoryLimits : GetConversationHistory(s, l)
    \/ CleanupOldSessions
    \/ GetOrCreateSession("c1")

SpecLog == Init /\ [][NextLog]_vars

\* the messages of a session in the order in which they were appended
AppendedMessages(tbl, session_id) ==
    LET rows == SessionMessages(tbl, session_id)
    IN  [i \in 1..Len(rows) |-> HistoryEntry(rows[i])]

\* C22: no step updates or deletes a stored message, and every
\* get_conversation_history call returns the messages of the session in the
\* order in which save_conversation_message appended them, messages of one
\* timestamp included.
C22_LogReadBackInOrder ==
    [][/\ IsPrefix(conversations, conversations')
       /\ last'.op = "get_conversation_history" =>
              last'.ret = AppendedMessages(conversations', last'.sid)]_vars

----------------------------------------------------------------------------
(* Persistence of the chat page's lead (app.py) *)

\* row i of leads.csv holds the current values of the lead's fields
RowHoldsLead(i) == \A f \in AppFields : csv[i][f] = app_lead[f]

\* C23: at the end of every turn of chat_page in which at least one lead field
\* is populated, the lead's current field values have been written to
\* leads.csv during that turn.
C23_UpsertEachTurn ==
    (/\ last.op = "get_openai_response"
     /\ \E f \in AppFields : PyTruthy(app_lead[f])) =>
        /\ ~last.saved_before
        /\ lead_saved
        /\ RowHoldsLead(Len(csv))

----------------------------------------------------------------------------
(* The steps of one turn of chat_page (app.py) *)

\* updated at the end of analyze_conversation_with_openai: the merge assigned
\* a field and calculate_lead_score() is reached
AnalysisUpdated(lead, n_messages, response) ==
    /\ InferenceCalled(n_messages)
    /\ response.kind = "object"
    /\ LET analysis == response.analysis
           s2 == MergeIndustry(analysis,
                 MergeInterest(analysis, [lead |-> lead, updated |-> FALSE]))
           s4 == MergeBuyingSignals(analysis, MergePainPoints(analysis, s2))
       IN  ~PainPointsRaises(analysis, s2) /\ s4.updated

\* the steps of the turn that has just ended, from the records of its actions
TurnSteps ==
    LET analysis_step == last.prev
        extract_step == analysis_step.turn
        analysed == analysis_step.op = "analyze_conversation_with_openai"
    IN  [extractions |-> IF extract_step.op = "extract_lead_info_regex" THEN 1 ELSE 0,
         inference_calls |-> IF analysed /\ analysis_step.called THEN 1 ELSE 0,
         recomputations_in_extraction |->
             IF RegexUpdated(extract_step.user_input, extract_step.pre) THEN 1 ELSE 0,
         recomputations_after_inference |->
             IF analysed /\ AnalysisUpdated(analysis_step.pre, Len(messages) - 1,
                                            analysis_step.response)
             THEN 1 ELSE 0,
         upserts |-> IF ~last.saved_before /\ lead_saved THEN 1 ELSE 0]

\* C24: every turn runs exactly one extraction pass, then at most one inference
\* call, then exactly one score recomputation (after the inference call when
\* there is one), then exactly one store upsert.
C24_TurnOrdering ==
    last.op = "get_openai_response" =>
        /\ TurnSteps.extractions = 1
        /\ TurnSteps.inference_calls <= 1
        /\ TurnSteps.recomputations_in_extraction
               + TurnSteps.recomputations_after_inference = 1
        /\ TurnSteps.inference_calls = 1 => TurnSteps.recomputations_in_extraction = 0
        /\ TurnSteps.upserts = 1

----------------------------------------------------------------------------
(* The reply of a turn whose conversational call fails (app.py) *)

\* C25: when the conversational call of a turn fails, the turn ends with the
\* fixed fallback reply appended to the history as the assistant message that
\* answers the visitor's message, and chat_page is back at its idle position.
C25_FallbackReply ==
    (last.op = "get_openai_response" /\ ~last.call_ok) =>
        /\ turn_pc = "idle"
        /\ Len(messages) = 2 * message_counter + 1
        /\ messages[Len(messages)] = [role |-> "assistant", content |-> FallbackReply]
        /\ messages[Len(messages) - 1].role = "user"

\* a second turn whose conversational call failed
C25_Witness ==
    /\ last.op = "get_openai_response"
    /\ ~last.call_ok
    /\ message_counter = 2
    /\ messages[Len(messages)].content = FallbackReply

----------------------------------------------------------------------------
(* The status column under arbitrary arguments (database.py) *)

\* status arguments of update_lead_status: the dashboard's options and a
\* string that is none of them
StatusArguments == StatusOptions \cup {"archived"}

\* lead dictionaries handed to save_lead, with and without a status key
StatusLeadInputs ==
    { WithScore([email |-> A]),
      load_lead_data(<<>>, "s1"),
      WithScore([name |-> A]) @@ [status |-> "vip"] }

NextStatus ==
    \/ \E s \in Sessions, ld \in StatusLeadInputs : SaveLeadData(s, ld)
    \/ \E id \in LeadIds(leads), st \in StatusArguments, n \in NotesInputs :
           UpdateLeadStatus(id, st, n)

SpecStatus == Init /\ [][NextStatus]_vars

\* C26: the status of every row of the leads table is one of new, contacted,
\* qualified, converted, lost.
C26_StatusInEnum ==
    \A i \in 1..Len(leads) : leads[i].status \in StatusOptions

----------------------------------------------------------------------------
(* Extraction misses (multilanguage.py) *)

\* "my name is email; I work at ab": every pattern that matches captures a
\* value that the length or the blacklist rule rejects
RejectedOnly ==
    [Silent EXCEPT !.name = <<<<"e", "m", "a", "i", "l">>, None,
                              <<"i", "s", " ", "e", "m", "a", "i", "l">>>>,
                   !.company = <<<<"a", "b">>, <<"a", "b">>>>]

\* the utterances of the extraction passes and the one that is rejected
MissUtterances == Utterances \cup {RejectedOnly}

NextMiss == \E u \in MissUtterances, l \in Languages : ApplyExtractMultilingual(u, l)

SpecMiss == InitExtract /\ [][NextMiss]_vars

\* the value the name and company branches build of a match
Cleaned(m) == str_title(str_strip(m))

\* the utterance is a miss: no pattern of the locale's list matches, or what
\* it captures fails the length or blacklist rule of its field
ExtractionMiss(user_input, language) ==
    /\ user_input.email = None
    /\ \A i \in 1..NumPatterns("name", language) :
           \/ user_input.name[i] = None
           \/ Len(Cleaned(user_input.name[i])) <= 1
           \/ \E w \in NameBlacklist : Contains(str_lower(Cleaned(user_input.name[i])), w)
    /\ user_input.phone = None \/ Len(StripPhoneSeparators(user_input.phone)) < 10
    /\ \A i \in 1..NumPatterns("company", language) :
           \/ user_input.company[i] = None
           \/ Len(Cleaned(user_input.company[i])) <= 2
           \/ \E w \in CompanyBlacklist :
                  Contains(str_lower(Cleaned(user_input.company[i])), w)
    /\ \A i \in 1..NumPatterns("interest", language) :
           \/ user_input.interest[i] = None
           \/ Len(str_strip(user_input.interest[i])) < 5
           \/ Len(str_strip(user_input.interest[i])) > 100
    /\ \A i \in 1..NumPatterns("budget", language) : user_input.budget[i] = None

\* C27: after extract_lead_info_multilingual over an utterance that is a
\* miss, the lead has the keys and the values it had before the call.
C27_MissLeavesLead ==
    (/\ last.op = "extract_lead_info_multilingual"
     /\ ExtractionMiss(last.user_input, last.language)) =>
        session_lead = last.pre

\* a pass over the utterance whose matches are all rejected, for a lead that
\* has a phone from an earlier pass and no name
C27_Witness ==
    /\ last.op = "extract_lead_info_multilingual"
    /\ last.user_input = RejectedOnly
    /\ ExtractionMiss(last.user_input, last.language)
    /\ Truthy(Get(last.pre, "phone", None))
    /\ ~Truthy(Get(last.pre, "name", None))
    /\ session_lead = last.pre

----------------------------------------------------------------------------
(* Rebinding a conversation whose session is inactive or gone               *)
(* (session_manager.py, database.py)                                        *)

\* a session id kept in st.session_state whose row is not in the store
StaleId == 99

\* SessionManager.save_lead_data for the session bound to the conversation
SaveBoundLead(c, lead_data) ==
    /\ nOps < MaxOps
    /\ state_session_id[c] # NoId
    /\ LET r == save_lead(leads, lead_data, state_session_id[c], nextId + 1)
       IN  /\ leads' = r.tbl
           /\ nextId' = IF r.lead_id = nextId + 1 THEN nextId + 1 ELSE nextId
           /\ analytics' = log_analytics_event(analytics, "lead_updated",
                                               state_session_id[c], r.lead_id)
           /\ last' = [op |-> "save_lead", sid |-> state_session_id[c], ld |-> lead_data,
                       id |-> NoId, ret |-> r.lead_id, pre |-> leads]
    /\ nOps' = nOps + 1
    /\ UNCHANGED <<firstRet, concVars, session_lead, chatVars, sessVars>>

\* SessionManager.save_message for the session bound to the conversation
SaveBoundMessage(c, content) ==
    /\ state_session_id[c] # NoId
    /\ Len(conversations) < MaxSweepMessages
    /\ SaveConversationMessage(state_session_id[c], "user", content)

\* no session yet; conversation c2 may hold the id of a session of a store
\* that has been replaced
InitRebind ==
    /\ leads = <<>>
    /\ analytics = <<>>
    /\ nextId = 0
    /\ nOps = 0
    /\ last = NoOp
    /\ firstRet = [s \in Sessions |-> NoId]
    /\ procs = <<>>
    /\ dbLock = 0
    /\ session_lead = EmptyDict
    /\ InitChat
    /\ sessions = <<>>
    /\ state_session_id \in {[c \in Conversations |-> NoId],
                             [c \in Conversations |-> IF c = "c2" THEN StaleId ELSE NoId]}
    /\ conversations = <<>>
    /\ clock = 0

NextRebind ==
    \/ \E c \in Conversations : GetOrCreateSession(c)
    \/ DaysPass
    \/ CleanupOldSessions
    \/ \E c \in Conversations, ld \in RetentionInputs : SaveBoundLead(c, ld)
    \/ \E c \in Conversations, m \in MessageContents : SaveBoundMessage(c, m)

SpecRebind == InitRebind /\ [][NextRebind]_vars

\* the table holds a row of the id with is_active true
LiveRow(tbl, id) == \E i \in 1..Len(tbl) : tbl[i].id = id /\ tbl[i].is_active

\* C28: get_or_create_session returns the id of an active row of the store;
\* when the bound session is inactive or has no row, the id is new, its row is
\* active and appended, the conversation is bound to it, and the rows of the
\* sessions table, the leads and the messages that were there are unchanged.
C28_NeverReturnsDeadSession ==
    last.op = "get_or_create_session" =>
        /\ LiveRow(sessions, last.ret)
        /\ state_session_id[last.conversation] = last.ret
        /\ (last.bound # NoId /\ ~LiveRow(last.pre, last.bound)) =>
               /\ last.ret # last.bound
               /\ last.ret \notin SessionIds(last.pre)
               /\ Len(sessions) = Len(last.pre) + 1
               /\ sessions[Len(sessions)].id = last.ret
               /\ IsPrefix(last.pre, sessions)
               /\ leads = last.pre_leads
               /\ conversations = last.pre_conversations

\* a call for a conversation bound to a session that the sweep deactivated
\* and that has a lead and a message
C28_Witness ==
    /\ last.op = "get_or_create_session"
    /\ last.bound \in SessionIds(last.pre)
    /\ ~LiveRow(last.pre, last.bound)
    /\ last.ret # last.bound
    /\ \E i \in 1..Len(leads) : leads[i].session_id = last.bound
    /\ \E i \in 1..Len(conversations) : conversations[i].session_id = last.bound

----------------------------------------------------------------------------
(* Saving a lead and loading it back (session_manager.py, database.py) *)

\* the keys of the dictionary load_lead_data returns
LeadKeys == ContactFields \cup {"language", "score", "priority", "status"}

\* leads handed to save_lead_data: partial ones, and ones that hold every key
RoundTripLeads ==
    LeadInputs \cup
    { [name |-> A, email |-> B, phone |-> None, company |-> None, interest |-> A,
       budget |-> B, language |-> "zh", score |-> 45, priority |-> "medium",
       status |-> "contacted"] }

NextRoundTrip ==
    \/ \E s \in Sessions, ld \in RoundTripLeads : SaveLeadData(s, ld)
    \/ \E s \in Sessions : LoadLeadData(s)

SpecRoundTrip == Init /\ [][NextRoundTrip]_vars

\* the all-empty default lead
DefaultLead ==
    [name |-> None, email |-> None, phone |-> None, company |-> None,
     interest |-> None, budget |-> None, language |-> "en", score |-> 0,
     priority |-> "low", status |-> "new"]

\* the load follows a save_lead_data of the same session that found no lead
LoadAfterFirstSave ==
    /\ last.op = "load_lead_data"
    /\ last.prev.op = "save_lead"
    /\ last.prev.sid = last.sid
    /\ SelectLeadId(last.prev.pre, last.sid) = NoId

\* C29: load_lead_data after the first save_lead_data(session_id, L) of a
\* session returns, for each of the ten keys, L's value (the default where L
\* has no such key); load_lead_data of a session without a lead returns the
\* all-empty default lead.
C29_SaveLoadRoundTrip ==
    /\ LoadAfterFirstSave =>
           \A k \in LeadKeys :
               session_lead[k] = IF k \in DOMAIN last.prev.ld THEN last.prev.ld[k]
                                 ELSE DefaultLead[k]
    /\ (last.op = "load_lead_data" /\ SelectLeadId(last.pre, last.sid) = NoId) =>
           session_lead = DefaultLead

\* the lead that holds every key, saved for a session without a lead while
\* the other session has one, and loaded back
C29_Witness ==
    /\ LoadAfterFirstSave
    /\ LeadKeys \subseteq DOMAIN last.prev.ld
    /\ Len(last.prev.pre) = 1
    /\ session_lead.status = "contacted"
    /\ session_lead.score = 45

----------------------------------------------------------------------------
(* The lead_saved flag and leads.csv (app.py) *)

\* an utterance that holds an e-mail address and nothing else
EmailOnly == [AppSilent EXCEPT !.text = "u5", !.email = <<"a", "@", "b", ".", "c", "d">>]

FlagUtterances ==
    {AppSilent, EmailOnly} \cup {u \in AppUtterances : u.text \in {"u1", "u3"}}

NextFlag ==
    \/ \E u \in FlagUtterances : TurnExtract(u)
    \/ \E r \in InferenceResults : TurnAnalyze(r)
    \/ TurnSkipAnalysis
    \/ \E ok \in BOOLEAN : TurnReply(ok)

SpecFlag == Init /\ [][NextFlag]_vars

\* the step is the end of a turn of chat_page
TurnEnds == turn_pc = "analyzed" /\ turn_pc' = "idle"

\* C30: lead_saved goes from false to true exactly in the steps that end a
\* turn with an email or a phone on the lead and a lead_score of at least 30
\* or a history of at least 6 messages; it never goes back to false; a row is
\* appended to leads.csv exactly in the steps that set the flag, so there is
\* at most one row, none is written while the flag is true, and the row has
\* an email or a phone.
C30_SavedOnce ==
    [][/\ lead_saved => lead_saved'
       /\ (~lead_saved /\ lead_saved') <=>
              /\ ~lead_saved
              /\ TurnEnds
              /\ PyTruthy(app_lead'.email) \/ PyTruthy(app_lead'.phone)
              /\ app_lead'.lead_score >= 30 \/ Len(messages') >= 6
       /\ Len(csv') = Len(csv) + (IF ~lead_saved /\ lead_saved' THEN 1 ELSE 0)
       /\ IsPrefix(csv, csv')
       /\ Len(csv') <= 1
       /\ \A i \in 1..Len(csv') : PyTruthy(csv'[i].email) \/ PyTruthy(csv'[i].phone)]_vars

\* the third turn ends with a lead of a score below 30 that has an email: it
\* is written because the history has reached 6 messages
C30_Witness ==
    /\ last.op = "get_openai_response"
    /\ message_counter = 3
    /\ ~last.saved_before
    /\ lead_saved
    /\ app_lead.lead_score < 30
    /\ Len(csv) = 1

====
